---- MODULE Spec2Model ----
(***************************************************************************)
(* A model of the game state of ascii-snake (src/src/main.rs): struct Game *)
(* with Game::new, Game::set_direction, Game::update and Game::spawn_food, *)
(* the value types Direction and Tile, and the driver: the game loop of    *)
(* main() and the input worker of spawn_input_channel().                   *)
(***************************************************************************)
EXTENDS Integers, FiniteSets, Sequences, TLC

\* ------------------------------------------------------------------ bounds

\* Largest grid width and height Game::new is called with in Spec.
MaxW == 3
MaxH == 2
\* Number of completed update() calls explored in Spec.
MaxTicks == 5
\* Number of completed update() calls explored in Spec16 (the 16x16 game).
MaxTicks16 == 2
\* Number of completed update() calls explored in SpecCalls.
MaxTicksCalls == 3
\* Number of completed update() calls explored in SpecSteps.
MaxTicksSteps == 4
\* Largest grid width and height main() plays on in SpecMain, besides its
\* own 16 x 16.
MaxMainW == 2
MaxMainH == 2
\* Largest number of bytes stdin delivers in SpecMain.
MaxInput == 2

\* ----------------------------------------------------------- program state

VARIABLES
    width,      \* Game.width
    height,     \* Game.height
    tiles,      \* Game.tiles, tiles[x][y]
    direction,  \* Game.direction
    alive,      \* Game.alive
    length,     \* Game.length
    head_x,     \* Game.head_x
    head_y,     \* Game.head_y
    pc,         \* "idle" between calls; "spawn_food" while update() is inside
                \* a spawn_food loop that cannot find an Empty tile. In
                \* SpecSteps, which follows the calls statement by statement:
                \* "new.spawn_food" and "spawn_food" inside the spawn_food
                \* loop called by new() and by update(), "update.set_head"
                \* before the head tile is written, "update.age" before the
                \* aging loops
    ticks,      \* history: number of update() calls that returned
    eaten,      \* history: number of times update() took its Tile::Food arm
    last,       \* history: the last call, its argument and its outcome
    tick_dir,   \* history (SpecCalls): the direction the last update()
                \* moved the head in, "-" before the first update()
    calls,      \* history (SpecCalls): set_direction calls since the last
                \* update(), 2 standing for two or more
    loop_pc,    \* main(): "recv" at the top of the game loop, "timer" at the
                \* fixed time step test, "done" after the break; "off" when
                \* the game is driven call by call
    direction_input,  \* main(): direction_input
    input_channel,    \* the mpsc channel: directions sent and not yet received
    input,      \* the bytes stdin delivers, in order
    nread,      \* input worker: number of bytes it has read
    received,   \* history: the directions try_recv() has returned, in order
    rendered,   \* the grid the last render_ascii() call drew, "-" before
    run         \* history (main): updates made since direction last changed

game == <<width, height, tiles, direction, alive, length, head_x, head_y>>
hist == <<pc, ticks, eaten, last>>
driver == <<loop_pc, direction_input, input_channel, input, nread, received,
            rendered, run>>
vars == <<width, height, tiles, direction, alive, length, head_x, head_y,
          pc, ticks, eaten, last, tick_dir, calls,
          loop_pc, direction_input, input_channel, input, nread, received,
          rendered, run>>

\* ------------------------------------------------------------- value types

\* enum Direction
Direction == {"Up", "Down", "Left", "Right"}

\* enum Tile { Empty, Food, Snake(SnakeVal) }
Empty == [tag |-> "Empty", val |-> 0]
Food == [tag |-> "Food", val |-> 0]
Snake(v) == [tag |-> "Snake", val |-> v]

\* A wrong table for Direction::opposite: the Left arm returns Left.
opposite_swapped(d) ==
    IF d = "Up" THEN "Down"
    ELSE IF d = "Down" THEN "Up"
    ELSE IF d = "Left" THEN "Left"
    ELSE "Left"

\* Direction::opposite
opposite(d) ==
    IF d = "Up" THEN "Down"
    ELSE IF d = "Down" THEN "Up"
    ELSE IF d = "Left" THEN "Right"
    ELSE "Left"

\* ---------------------------------------------------------------- helpers

\* The coordinates x in 0..width, y in 0..height of the loops over the grid.
Cells(w, h) == (0 .. w - 1) \X (0 .. h - 1)

\* The cells of grid t that hold tile kind tag.
CellsTagged(t, w, h, tag) == {c \in Cells(w, h) : t[c[1]][c[2]].tag = tag}

\* update(), "Move head": the head coordinate after one step in direction d.
advance_x(d, x) == IF d = "Left" THEN x - 1 ELSE IF d = "Right" THEN x + 1 ELSE x
\* An Up arm that adds to head_y, as the Down arm does.
advance_y_flipped(d, y) == IF d = "Up" THEN y + 1 ELSE IF d = "Down" THEN y + 1 ELSE y

advance_y(d, y) == IF d = "Up" THEN y - 1 ELSE IF d = "Down" THEN y + 1 ELSE y

\* update(), "Check for out of bounds".
out_of_bounds(x, y, w, h) == x < 0 \/ x >= w \/ y < 0 \/ y >= h

\* An aging arm that prunes one step early.
age_tile_early(t, len) ==
    IF t.tag = "Snake"
    THEN IF t.val + 1 >= len THEN Empty ELSE Snake(t.val + 1)
    ELSE t

\* An aging arm that prunes one step late: val > length instead of >=.
age_tile_late(t, len) ==
    IF t.tag = "Snake"
    THEN IF t.val > len THEN Empty ELSE Snake(t.val + 1)
    ELSE t

\* update(), the match arm of "Update the grid's snake values" for one tile.
age_tile(t, len) ==
    IF t.tag = "Snake"
    THEN IF t.val >= len THEN Empty ELSE Snake(t.val + 1)
    ELSE t

\* update(), the two loops of "Update the grid's snake values".
age_pass(t, len) ==
    [x \in DOMAIN t |-> [y \in DOMAIN t[x] |-> age_tile(t[x][y], len)]]

\* A spawn_food that marks the first tile it picks, Empty or not.
spawn_food_targets_any(t, w, h) == Cells(w, h)

\* spawn_food() picks coordinates until the tile is Empty: the cells it can
\* end on.
spawn_food_targets(t, w, h) == CellsTagged(t, w, h, "Empty")

\* A spawn_food that marks a copy of the tile (Tile is Copy) and leaves the
\* grid as it was.
spawn_food_copy(t, c) == t

\* spawn_food() ending on cell c.
spawn_food(t, c) == [t EXCEPT ![c[1]][c[2]] = Food]

\* ------------------------------------------------------------ struct Game

\* The fields of the Game value the calls act on.
self ==
    [width |-> width, height |-> height, tiles |-> tiles,
     direction |-> direction, alive |-> alive, length |-> length,
     head_x |-> head_x, head_y |-> head_y]

\* Game::new before its spawn_food call: the struct literal.
new(w, h) ==
    [width |-> w, height |-> h,
     tiles |-> [x \in 0 .. w - 1 |-> [y \in 0 .. h - 1 |-> Empty]],
     direction |-> "Up", alive |-> TRUE, length |-> 3,
     head_x |-> w \div 2, head_y |-> h \div 2]

\* set_direction accepting a reversal only when it is asked twice: rejects
\* the current direction instead of its opposite.
set_direction_rejects_same(g, d) == d = g.direction

\* set_direction(): the test that returns Err(()).
set_direction_rejects(g, d) == d = opposite(g.direction)

\* set_direction(): the struct after the call.
set_direction_to(g, d) ==
    IF set_direction_rejects(g, d) THEN g ELSE [g EXCEPT !.direction = d]

\* update(), "Move head".
move_head(g) ==
    [g EXCEPT !.head_x = advance_x(g.direction, g.head_x),
              !.head_y = advance_y(g.direction, g.head_y)]

\* A death that also resets the snake to its starting length.
die_reset(g) == [g EXCEPT !.alive = FALSE, !.length = 3]

\* update(), "Die if out of bounds" and "Die if collided": alive = false
\* and return.
die(g) == [g EXCEPT !.alive = FALSE]

\* Growth by two segments per food.
eat_two(g) == [g EXCEPT !.length = g.length + 2]

\* update(), "Eat": self.length += 1.
eat(g) == [g EXCEPT !.length = g.length + 1]

\* A head write that also marks the snake alive again.
set_head_revive(g) ==
    [g EXCEPT !.tiles[g.head_x][g.head_y] = Snake(0), !.alive = TRUE]

\* A head write of Snake(1) instead of Snake(0).
set_head_one(g) == [g EXCEPT !.tiles[g.head_x][g.head_y] = Snake(1)]

\* update(): tiles[head_x][head_y] = Tile::Snake(0).
set_head(g) == [g EXCEPT !.tiles[g.head_x][g.head_y] = Snake(0)]

\* update(), "Update the grid's snake values", on the struct.
age(g) == [g EXCEPT !.tiles = age_pass(g.tiles, g.length)]

\* update(): the tile under the advanced head, read after the bounds check.
head_tile(g) == g.tiles[g.head_x][g.head_y]

\* A collision test that lets the head onto the tail tile this update would
\* have pruned.
update_arm_tail_free(g) ==
    IF out_of_bounds(g.head_x, g.head_y, g.width, g.height) THEN "out_of_bounds"
    ELSE IF head_tile(g).tag = "Snake" /\ head_tile(g).val < g.length THEN "collision"
    ELSE IF head_tile(g).tag = "Food" THEN "eat"
    ELSE "move"

\* update(): which arm the call takes once the head has advanced.
update_arm(g) ==
    IF out_of_bounds(g.head_x, g.head_y, g.width, g.height) THEN "out_of_bounds"
    ELSE IF head_tile(g).tag = "Snake" THEN "collision"
    ELSE IF head_tile(g).tag = "Food" THEN "eat"
    ELSE "move"

\* ---------------------------------------------------------------- actions

\* The grid sizes Game::new is called with in Spec.
Sizes == (1 .. MaxW) \X (1 .. MaxH)

\* The struct fields take the values of record g.
Becomes(g) ==
    /\ width' = g.width
    /\ height' = g.height
    /\ tiles' = g.tiles
    /\ direction' = g.direction
    /\ alive' = g.alive
    /\ length' = g.length
    /\ head_x' = g.head_x
    /\ head_y' = g.head_y

\* Game::new(w, h): the struct literal, then spawn_food() ending on cell c.
InitGame(w, h) ==
    \E c \in spawn_food_targets(new(w, h).tiles, w, h) :
        LET g == [new(w, h) EXCEPT !.tiles = spawn_food(new(w, h).tiles, c)] IN
        /\ width = g.width
        /\ height = g.height
        /\ tiles = g.tiles
        /\ direction = g.direction
        /\ alive = g.alive
        /\ length = g.length
        /\ head_x = g.head_x
        /\ head_y = g.head_y
        /\ pc = "idle"
        /\ ticks = 0
        /\ eaten = 0
        /\ last = [op |-> "new", arg |-> "-", ret |-> "-", was_alive |-> TRUE]

\* No main() runs: the game is driven call by call.
NoDriver ==
    /\ tick_dir = "-"
    /\ calls = 0
    /\ loop_pc = "off"
    /\ direction_input = "Up"
    /\ input_channel = <<>>
    /\ input = <<>>
    /\ nread = 0
    /\ received = <<>>
    /\ rendered = "-"
    /\ run = 0

Init == (\E s \in Sizes : InitGame(s[1], s[2])) /\ NoDriver

\* main(): Game::new(16, 16).
Init16 == InitGame(16, 16) /\ NoDriver

\* game.set_direction(d) on the struct g.
set_direction_on(g, d) ==
    /\ pc = "idle"
    /\ Becomes(set_direction_to(g, d))
    /\ last' = [op |-> "set_direction", arg |-> d,
                ret |-> IF set_direction_rejects(g, d) THEN "Err" ELSE "Ok",
                was_alive |-> g.alive]
    /\ UNCHANGED <<pc, ticks, eaten>>

\* game.set_direction(d)
set_direction(d) ==
    /\ set_direction_on(self, d)
    /\ UNCHANGED <<tick_dir, calls, driver>>

\* game.update() on the struct g.
update_on(g) ==
    /\ pc = "idle"
    /\ LET g1 == move_head(g)
           arm == update_arm(g1)
       IN
       IF arm \in {"out_of_bounds", "collision"}
       THEN /\ Becomes(die(g1))
            /\ ticks' = ticks + 1
            /\ last' = [op |-> "update", arg |-> "-", ret |-> arm, was_alive |-> g.alive]
            /\ UNCHANGED <<pc, eaten>>
       ELSE IF arm = "move"
       THEN /\ Becomes(age(set_head(g1)))
            /\ ticks' = ticks + 1
            /\ last' = [op |-> "update", arg |-> "-", ret |-> arm, was_alive |-> g.alive]
            /\ UNCHANGED <<pc, eaten>>
       ELSE IF spawn_food_targets(g1.tiles, g1.width, g1.height) = {}
       THEN \* spawn_food() never finds an Empty tile: update() does not return
            /\ Becomes(eat(g1))
            /\ pc' = "spawn_food"
            /\ eaten' = eaten + 1
            /\ last' = [op |-> "update", arg |-> "-", ret |-> "hang", was_alive |-> g.alive]
            /\ UNCHANGED ticks
       ELSE \E c \in spawn_food_targets(g1.tiles, g1.width, g1.height) :
            LET g2 == eat(g1)
                g3 == [g2 EXCEPT !.tiles = spawn_food(g2.tiles, c)]
            IN
            /\ Becomes(age(set_head(g3)))
            /\ ticks' = ticks + 1
            /\ eaten' = eaten + 1
            /\ last' = [op |-> "update", arg |-> "-", ret |-> arm, was_alive |-> g.alive]
            /\ UNCHANGED pc

\* game.update()
update ==
    /\ ticks < MaxTicks
    /\ update_on(self)
    /\ UNCHANGED <<tick_dir, calls, driver>>

Next == (\E d \in Direction : set_direction(d)) \/ update

Spec == Init /\ [][Next]_vars

\* The 16x16 game of main(), followed for MaxTicks16 updates.
Next16 == ticks < MaxTicks16 /\ Next

Spec16 == Init16 /\ [][Next16]_vars

\* ------------------------------------- the calls, with their history kept

\* game.set_direction(d), counted.
set_direction_counted(d) ==
    /\ set_direction_on(self, d)
    /\ calls' = IF calls < 2 THEN calls + 1 ELSE 2
    /\ UNCHANGED <<tick_dir, driver>>

\* game.update(), its direction remembered.
update_counted ==
    /\ ticks < MaxTicksCalls
    /\ update_on(self)
    /\ tick_dir' = direction
    /\ calls' = 0
    /\ UNCHANGED driver

NextCalls == (\E d \in Direction : set_direction_counted(d)) \/ update_counted

\* Any sequence of set_direction and update calls on a new game, with the
\* direction of the last update and the calls since then remembered.
SpecCalls == Init /\ [][NextCalls]_vars

\* ------------------------------------------ the calls, step by step

\* A spawn_food that takes the first tile it picks, whatever it holds.
spawn_food_accepts_any(t, c) == TRUE

\* spawn_food(), `if *tile == Tile::Empty`: the picked tile ends the loop.
spawn_food_accepts(t, c) == t[c[1]][c[2]] = Empty

\* Game::new(w, h) up to its call of spawn_food().
InitSteps ==
    /\ \E s \in Sizes : LET g == new(s[1], s[2]) IN
        /\ width = g.width
        /\ height = g.height
        /\ tiles = g.tiles
        /\ direction = g.direction
        /\ alive = g.alive
        /\ length = g.length
        /\ head_x = g.head_x
        /\ head_y = g.head_y
    /\ pc = "new.spawn_food"
    /\ ticks = 0
    /\ eaten = 0
    /\ last = [op |-> "new", arg |-> "-", ret |-> "-", was_alive |-> TRUE]
    /\ NoDriver

\* One pass of the loop of spawn_food(): coordinate c is picked; an Empty
\* tile becomes Food and the function returns to its caller, any other tile
\* sends the loop round again.
spawn_food_pick(c) ==
    /\ pc \in {"new.spawn_food", "spawn_food"}
    /\ c \in Cells(width, height)
    /\ IF spawn_food_accepts(tiles, c)
       THEN /\ tiles' = spawn_food(tiles, c)
            /\ pc' = IF pc = "new.spawn_food" THEN "idle" ELSE "update.set_head"
            /\ UNCHANGED <<width, height, direction, alive, length, head_x,
                           head_y, ticks, eaten, last, tick_dir, calls, driver>>
       ELSE UNCHANGED vars

\* update() from its entry to its first return, or to the spawn_food() call,
\* or to the write of the head tile.
update_begin ==
    /\ pc = "idle"
    /\ ticks < MaxTicksSteps
    /\ LET g1 == move_head(self)
           arm == update_arm(g1)
       IN
       /\ last' = [op |-> "update", arg |-> "-", ret |-> arm, was_alive |-> alive]
       /\ IF arm \in {"out_of_bounds", "collision"}
          THEN /\ Becomes(die(g1))
               /\ ticks' = ticks + 1
               /\ UNCHANGED <<pc, eaten>>
          ELSE IF arm = "eat"
          THEN /\ Becomes(eat(g1))
               /\ pc' = "spawn_food"
               /\ eaten' = eaten + 1
               /\ UNCHANGED ticks
          ELSE /\ Becomes(g1)
               /\ pc' = "update.set_head"
               /\ UNCHANGED <<ticks, eaten>>
    /\ UNCHANGED <<tick_dir, calls, driver>>

\* update(): the head tile becomes Snake(0).
update_set_head ==
    /\ pc = "update.set_head"
    /\ Becomes(set_head(self))
    /\ pc' = "update.age"
    /\ UNCHANGED <<ticks, eaten, last, tick_dir, calls, driver>>

\* update(): the aging loops, and the return.
update_age ==
    /\ pc = "update.age"
    /\ Becomes(age(self))
    /\ pc' = "idle"
    /\ ticks' = ticks + 1
    /\ UNCHANGED <<eaten, last, tick_dir, calls, driver>>

NextSteps ==
    \/ \E d \in Direction : set_direction(d)
    \/ update_begin
    \/ \E c \in Cells(MaxW, MaxH) : spawn_food_pick(c)
    \/ update_set_head
    \/ update_age

\* thread_rng() is uniform: a coordinate that would end the loop of
\* spawn_food() is not passed over for ever.
FairPicks == \A c \in Cells(MaxW, MaxH) : WF_vars(spawn_food_pick(c))

\* Any sequence of set_direction and update calls on a new game, followed
\* statement by statement.
SpecSteps == InitSteps /\ [][NextSteps]_vars /\ FairPicks

\* ------------------------------------------------------------- the driver

\* The bytes stdin can deliver: the four keys, and "x" for any other byte.
Bytes == {"w", "s", "a", "d", "x"}

\* The byte sequences stdin delivers in SpecMain.
Inputs == UNION {[1 .. n -> Bytes] : n \in 0 .. MaxInput}

\* A key table with the 'a' and 'd' arms exchanged.
parse_key_mirrored(b) ==
    IF b = "w" THEN "Up"
    ELSE IF b = "s" THEN "Down"
    ELSE IF b = "a" THEN "Right"
    ELSE IF b = "d" THEN "Left"
    ELSE "continue"

\* spawn_input_channel(): the match on buf[0]; "continue" for the `_` arm.
parse_key(b) ==
    IF b = "w" THEN "Up"
    ELSE IF b = "s" THEN "Down"
    ELSE IF b = "a" THEN "Left"
    ELSE IF b = "d" THEN "Right"
    ELSE "continue"

\* main() before its loop, on a w x h game, with stdin about to deliver inp.
InitDriver(w, h, inp) ==
    /\ InitGame(w, h)
    /\ tick_dir = "-"
    /\ calls = 0
    /\ loop_pc = "recv"
    /\ direction_input = "Up"
    /\ input_channel = <<>>
    /\ input = inp
    /\ nread = 0
    /\ received = <<>>
    /\ rendered = "-"
    /\ run = 0

\* main() on the small grids with any input, and on its own 16 x 16 grid
\* with no input at all.
InitMain ==
    \/ \E w \in 1 .. MaxMainW : \E h \in 1 .. MaxMainH : \E inp \in Inputs :
           InitDriver(w, h, inp)
    \/ InitDriver(16, 16, <<>>)

\* The input worker, one pass of its loop: read_exact of one byte, then the
\* send of its direction, or `continue` for an unrecognized byte. It runs
\* until the process exits.
worker_pass ==
    /\ loop_pc \in {"recv", "timer"}
    /\ nread < Len(input)
    /\ nread' = nread + 1
    /\ input_channel' =
          IF parse_key(input[nread + 1]) = "continue"
          THEN input_channel
          ELSE Append(input_channel, parse_key(input[nread + 1]))
    /\ UNCHANGED <<game, hist, tick_dir, calls, loop_pc, direction_input,
                   input, received, rendered, run>>

\* A try_recv that takes the newest message and drops the older ones.
try_recv_latest(ch) ==
    IF ch = <<>> THEN [got |-> FALSE, msg |-> "-", rest |-> ch]
    ELSE [got |-> TRUE, msg |-> ch[Len(ch)], rest |-> <<>>]

\* input_channel.try_recv(): the oldest message, if there is one.
try_recv(ch) ==
    IF ch = <<>> THEN [got |-> FALSE, msg |-> "-", rest |-> ch]
    ELSE [got |-> TRUE, msg |-> Head(ch), rest |-> Tail(ch)]

\* main(), "Process input": if let Ok(direction) = input_channel.try_recv().
loop_recv ==
    /\ loop_pc = "recv"
    /\ pc = "idle"
    /\ LET r == try_recv(input_channel) IN
       /\ input_channel' = r.rest
       /\ direction_input' = IF r.got THEN r.msg ELSE direction_input
       /\ received' = IF r.got THEN Append(received, r.msg) ELSE received
    /\ loop_pc' = "timer"
    /\ UNCHANGED <<game, hist, tick_dir, calls, input, nread, rendered, run>>

\* main(): the fixed time step has not passed; the loop goes round.
loop_skip ==
    /\ loop_pc = "timer"
    /\ pc = "idle"
    /\ loop_pc' = "recv"
    /\ UNCHANGED <<game, hist, tick_dir, calls, direction_input, input_channel,
                   input, nread, received, rendered, run>>

\* A loop that goes on after the death of the snake.
loop_after_never_breaks(a) == "recv"

\* main(), "Stop running the game loop if the player died".
loop_after(a) == IF a THEN "recv" ELSE "done"

\* main(): the fixed time step has passed: set_direction(direction_input),
\* update(), render_ascii() and the test of alive().
loop_tick ==
    /\ loop_pc = "timer"
    /\ update_on(set_direction_to(self, direction_input))
    /\ IF pc' = "idle"
       THEN /\ rendered' = tiles'
            /\ loop_pc' = loop_after(alive')
       ELSE UNCHANGED <<rendered, loop_pc>>
    /\ run' = IF direction' # direction THEN 1 ELSE run + 1
    /\ UNCHANGED <<tick_dir, calls, direction_input, input_channel, input,
                   nread, received>>

NextMain == worker_pass \/ loop_recv \/ loop_skip \/ loop_tick

\* main() and its input worker.
SpecMain == InitMain /\ [][NextMain]_vars

\* ----------------------------------------------------- vocabulary of claims

\* The pairs (current, requested) that are reversals.
Reversal(c, d) ==
    <<c, d>> \in {<<"Up", "Down">>, <<"Down", "Up">>,
                  <<"Left", "Right">>, <<"Right", "Left">>}

\* The coordinate one cell from (head_x, head_y) in the current direction.
AheadX ==
    head_x + (IF direction = "Right" THEN 1 ELSE IF direction = "Left" THEN -1 ELSE 0)
AheadY ==
    head_y + (IF direction = "Down" THEN 1 ELSE IF direction = "Up" THEN -1 ELSE 0)

\* (x, y) lies in [0, width) x [0, height).
InGrid(x, y) == x \in 0 .. width - 1 /\ y \in 0 .. height - 1

\* The cells of the current grid holding Food, Empty and Snake tiles.
FoodCells(t) == {c \in (0 .. width - 1) \X (0 .. height - 1) : t[c[1]][c[2]] = Food}
EmptyCells(t) == {c \in (0 .. width - 1) \X (0 .. height - 1) : t[c[1]][c[2]] = Empty}
SnakeCells(t) ==
    {c \in (0 .. width - 1) \X (0 .. height - 1) : t[c[1]][c[2]].tag = "Snake"}

\* This step is an update() call that returned.
Tick == ticks' = ticks + 1

\* ------------------------------------------------------------------ claims

\* C1: set_direction(d) returns an error if and only if d is the opposite of
\* the current direction; on error no field of the game changes, on success
\* the direction becomes d and no other field changes.
C1_SetDirection ==
    [][last'.op = "set_direction" =>
          /\ last'.ret \in {"Ok", "Err"}
          /\ (last'.ret = "Err") <=> Reversal(direction, last'.arg)
          /\ last'.ret = "Err" => game' = game
          /\ last'.ret = "Ok" =>
                /\ direction' = last'.arg
                /\ <<width, height, tiles, alive, length, head_x, head_y>>'
                     = <<width, height, tiles, alive, length, head_x, head_y>>]_vars

\* A rejected reversal after an accepted turn: Right asked while moving Left.
C1_Witness ==
    /\ last.op = "set_direction"
    /\ last.ret = "Err"
    /\ last.arg = "Right"
    /\ direction = "Left"

\* C2: from an alive state, an update whose advanced head lies outside the
\* grid sets alive to false and changes nothing but the head coordinate:
\* tiles, length and direction are as before.
C2_OutOfBounds ==
    [][(Tick /\ alive /\ ~InGrid(AheadX, AheadY)) =>
          /\ alive' = FALSE
          /\ tiles' = tiles
          /\ length' = length
          /\ direction' = direction
          /\ head_x' = AheadX
          /\ head_y' = AheadY]_vars

\* The snake has just died leaving the left edge: head at x = -1 moving Left.
C2_Witness ==
    /\ last.op = "update"
    /\ last.ret = "out_of_bounds"
    /\ last.was_alive
    /\ ~alive
    /\ direction = "Left"
    /\ head_x = -1

\* C3: from an alive state, an update whose advanced head is inside the grid
\* on a Snake tile of any age sets alive to false and stops: no tile changes
\* (no aging pass) and length is unchanged.
C3_SelfCollision ==
    [][(Tick /\ alive /\ InGrid(AheadX, AheadY)
             /\ tiles[AheadX][AheadY].tag = "Snake") =>
          /\ alive' = FALSE
          /\ tiles' = tiles
          /\ length' = length]_vars

\* The snake has just died on its own tail tile, the one of age = length that
\* the aging pass of this update would have pruned.
C3_Witness ==
    /\ last.op = "update"
    /\ last.ret = "collision"
    /\ last.was_alive
    /\ ~alive
    /\ tiles[head_x][head_y] = Snake(length)

\* C4: from an alive state with an Empty cell, an update that moves the head
\* onto the Food cell adds exactly 1 to length, makes the eaten cell a snake
\* segment and leaves exactly one Food cell, at a cell that was Empty before
\* the update and so is not the eaten cell.
C4_Eat ==
    [][(Tick /\ alive /\ InGrid(AheadX, AheadY)
             /\ tiles[AheadX][AheadY] = Food /\ EmptyCells(tiles) # {}) =>
          /\ length' = length + 1
          /\ tiles'[AheadX][AheadY].tag = "Snake"
          /\ \E c \in EmptyCells(tiles) :
                /\ FoodCells(tiles') = {c}
                /\ c # <<AheadX, AheadY>>]_vars

\* The live snake has just eaten.
C4_Witness ==
    /\ last.op = "update"
    /\ last.ret = "eat"
    /\ last.was_alive
    /\ alive
    /\ length = 4
    /\ Cardinality(FoodCells(tiles)) = 1

\* The smaller of two integers.
Min(a, b) == IF a <= b THEN a ELSE b

\* C5: after the n-th update of a game in which no update so far killed the
\* snake, the number of Snake tiles is min(n, length): one more per update
\* until it reaches length, then length, also on updates that eat.
C5_SegmentCount ==
    (alive /\ pc = "idle") =>
        Cardinality(SnakeCells(tiles)) = Min(ticks, length)

\* A live snake at its full length right after an update that ate.
C5_Witness ==
    /\ alive
    /\ last.op = "update"
    /\ last.ret = "eat"
    /\ ticks >= length
    /\ Cardinality(SnakeCells(tiles)) = length

\* C6: in every state between calls (after Game::new, after every returned
\* update, after every set_direction) the grid holds exactly one Food tile
\* while the snake is alive.
C6_OneFood ==
    (alive /\ pc = "idle") => Cardinality(FoodCells(tiles)) = 1

\* A live snake that has eaten twice, seen after a set_direction call.
C6_Witness ==
    /\ alive
    /\ pc = "idle"
    /\ eaten = 2
    /\ last.op = "set_direction"
    /\ Cardinality(FoodCells(tiles)) = 1

\* C7: alive starts true and never changes from false back to true, whatever
\* set_direction and update calls follow, updates after death included.
C7_AliveMonotone ==
    (alive = TRUE) /\ [][alive = FALSE => alive' = FALSE]_vars

\* An update called on a dead snake has written a head tile and aged the grid.
C7_Witness ==
    /\ ~alive
    /\ ~last.was_alive
    /\ last.op = "update"
    /\ last.ret \in {"move", "eat"}

\* C8: length starts at 3 and never decreases; it changes only in an update
\* whose advanced head is on the Food tile, and then by exactly +1, so length
\* is always 3 plus the number of food tiles eaten.
C8_Length ==
    /\ length = 3
    /\ [][length' # length =>
             /\ last'.op = "update"
             /\ InGrid(AheadX, AheadY)
             /\ tiles[AheadX][AheadY] = Food
             /\ length' = length + 1]_vars
    /\ [](length = 3 + eaten)

\* The snake has eaten twice and is 5 long.
C8_Witness ==
    /\ length = 5
    /\ eaten = 2
    /\ last.op = "update"
    /\ last.ret = "move"

\* C9 as stated: right after every returned update, every Snake(age) tile
\* has age < length.
C9_AgeBelowLength ==
    (last.op = "update" /\ pc = "idle") =>
        \A c \in SnakeCells(tiles) : tiles[c[1]][c[2]].val < length

\* C9 as amended: right after every returned update, every Snake(age) tile
\* has age <= length.
C9_AgeAtMostLength ==
    (last.op = "update" /\ pc = "idle") =>
        \A c \in SnakeCells(tiles) : tiles[c[1]][c[2]].val <= length

\* Right after an update the grid holds the tail tile, of age = length.
C9_Witness ==
    /\ last.op = "update"
    /\ pc = "idle"
    /\ \E c \in SnakeCells(tiles) : tiles[c[1]][c[2]].val = length

\* C10 as stated: the 16x16 game starts with head (8, 8), direction Up and
\* length 3, and with (8, 7) Empty its first update, moving Up, leaves the
\* head at (8, 7), tile (8, 7) = Snake(0), alive true and length 3.
C10_FirstTickSnake0 ==
    /\ (width = 16 /\ height = 16 /\ head_x = 8 /\ head_y = 8
        /\ direction = "Up" /\ length = 3 /\ alive = TRUE)
    /\ [][(ticks = 0 /\ Tick /\ direction = "Up" /\ tiles[8][7] = Empty) =>
             /\ head_x' = 8
             /\ head_y' = 7
             /\ tiles'[8][7] = Snake(0)
             /\ alive'
             /\ length' = 3]_vars

\* C10 as amended: the same, with tile (8, 7) = Snake(1) after the update.
C10_FirstTickSnake1 ==
    /\ (width = 16 /\ height = 16 /\ head_x = 8 /\ head_y = 8
        /\ direction = "Up" /\ length = 3 /\ alive = TRUE)
    /\ [][(ticks = 0 /\ Tick /\ direction = "Up" /\ tiles[8][7] = Empty) =>
             /\ head_x' = 8
             /\ head_y' = 7
             /\ tiles'[8][7] = Snake(1)
             /\ alive'
             /\ length' = 3]_vars

\* The 16x16 game after its first update, made moving Up onto an Empty tile.
C10_Witness ==
    /\ width = 16
    /\ height = 16
    /\ ticks = 1
    /\ last.op = "update"
    /\ last.ret = "move"
    /\ direction = "Up"
    /\ head_x = 8
    /\ head_y = 7

\* C11 as stated: whatever set_direction and update calls are made, the
\* direction an update moves the head in is never the opposite of the
\* direction the update before it used (the head never steps back onto the
\* neck cell). Stated for updates of a live snake only, the case the claim
\* is about.
C11_NeverReverses ==
    [][(Tick /\ alive /\ tick_dir # "-") =>
          ~Reversal(tick_dir, direction)]_vars

\* C11 as amended: the same, for updates with at most one set_direction call
\* since the update before.
C11_NeverReversesOneCall ==
    [][(Tick /\ tick_dir # "-" /\ calls <= 1) =>
          ~Reversal(tick_dir, direction)]_vars

\* Between two updates the only set_direction call asked for the reverse of
\* the direction just used and was rejected.
C11_Witness ==
    /\ ticks >= 1
    /\ ticks < MaxTicksCalls
    /\ pc = "idle"
    /\ calls = 1
    /\ last.op = "set_direction"
    /\ last.ret = "Err"
    /\ Reversal(tick_dir, last.arg)
    /\ direction = tick_dir

\* The program is inside the loop of spawn_food().
InSpawnFood == pc \in {"new.spawn_food", "spawn_food"}

\* C12: spawn_food, as a loop that picks an arbitrary coordinate each pass,
\* returns (under fair picks) whenever an Empty tile exists; when it returns
\* exactly one formerly Empty tile is Food and no other tile or field has
\* changed; no pass that does not return changes a tile; with no Empty tile
\* it never returns.
C12_SpawnFood ==
    /\ [][(InSpawnFood /\ ~InSpawnFood') =>
             /\ \E c \in EmptyCells(tiles) :
                   tiles' = [tiles EXCEPT ![c[1]][c[2]] = Food]
             /\ <<width, height, direction, alive, length, head_x, head_y>>'
                  = <<width, height, direction, alive, length, head_x, head_y>>]_vars
    /\ [][(InSpawnFood /\ InSpawnFood') => game' = game]_vars
    /\ [][(InSpawnFood /\ EmptyCells(tiles) = {}) => InSpawnFood']_vars
    /\ (InSpawnFood /\ EmptyCells(tiles) # {}) ~> ~InSpawnFood

\* update() is inside spawn_food() on a grid with no Empty tile.
C12_Witness ==
    /\ pc = "spawn_food"
    /\ last.ret = "eat"
    /\ EmptyCells(tiles) = {}

\* C14 as stated: the aging pass of an update of a live snake turns every
\* Snake(age) tile into Empty if age + 1 >= length and into Snake(age + 1)
\* otherwise, and leaves the other tiles as they are.
C14_AgePassEarly ==
    [][(pc = "update.age" /\ pc' = "idle" /\ alive) =>
          \A x \in 0 .. width - 1 : \A y \in 0 .. height - 1 :
              tiles'[x][y] =
                  IF tiles[x][y].tag = "Snake"
                  THEN IF tiles[x][y].val + 1 >= length
                       THEN Empty
                       ELSE Snake(tiles[x][y].val + 1)
                  ELSE tiles[x][y]]_vars

\* C14 as amended: the same with the test age >= length.
C14_AgePass ==
    [][(pc = "update.age" /\ pc' = "idle" /\ alive) =>
          \A x \in 0 .. width - 1 : \A y \in 0 .. height - 1 :
              tiles'[x][y] =
                  IF tiles[x][y].tag = "Snake"
                  THEN IF tiles[x][y].val >= length
                       THEN Empty
                       ELSE Snake(tiles[x][y].val + 1)
                  ELSE tiles[x][y]]_vars

\* The aging pass of the 4th update of a live snake of length 3 has pruned
\* the tile written by the 1st and kept the other three.
C14_Witness ==
    /\ pc = "idle"
    /\ alive
    /\ ticks = 4
    /\ length = 3
    /\ last.op = "update"
    /\ Cardinality(SnakeCells(tiles)) = 3

\* C13: Direction::opposite is a total involution on the four directions:
\* opposite(opposite(d)) = d, Up and Down are mapped to each other, Left and
\* Right are mapped to each other, and opposite(d) is never d. Checked for
\* every direction the game holds or is asked for, and for all four.
C13_OppositeInvolution ==
    /\ \A d \in Direction \cup {direction} :
          /\ opposite(d) \in Direction
          /\ opposite(opposite(d)) = d
          /\ opposite(d) # d
    /\ opposite("Up") = "Down"
    /\ opposite("Down") = "Up"
    /\ opposite("Left") = "Right"
    /\ opposite("Right") = "Left"

\* set_direction has applied opposite to Down and so rejected Up.
C13_Witness ==
    /\ last.op = "set_direction"
    /\ last.ret = "Err"
    /\ last.arg = "Up"
    /\ direction = "Down"
    /\ opposite(direction) = last.arg

\* C15: in main() no update and no set_direction runs once alive is false:
\* whenever the snake is dead the last call made on the game is the update
\* that killed it, the grid drawn last is the grid as that update left it,
\* and the loop has exited, for good.
C15_DeadIsTerminal ==
    /\ [](alive = FALSE =>
             /\ loop_pc = "done"
             /\ last.op = "update"
             /\ last.was_alive
             /\ last.ret \in {"out_of_bounds", "collision"}
             /\ rendered = tiles)
    /\ [][loop_pc = "done" => (loop_pc' = "done" /\ game' = game)]_vars

\* main() has left its loop after a snake that had turned once died.
C15_Witness ==
    /\ ~alive
    /\ loop_pc = "done"
    /\ ticks >= 2
    /\ received # <<>>
    /\ direction # "Up"

\* C16: the receive of each loop iteration takes exactly the oldest message
\* from a non-empty channel into direction_input and nothing from an empty
\* one (k queued before, k - 1 after); nothing else shortens the channel; so
\* an update can use a direction older than those still queued.
C16_DrainsOne ==
    /\ [][(loop_pc = "recv" /\ loop_pc' = "timer") =>
             IF input_channel = <<>>
             THEN input_channel' = <<>> /\ direction_input' = direction_input
             ELSE /\ Len(input_channel') = Len(input_channel) - 1
                  /\ input_channel' = Tail(input_channel)
                  /\ direction_input' = Head(input_channel)]_vars
    /\ [][Len(input_channel') < Len(input_channel) =>
             (loop_pc = "recv" /\ loop_pc' = "timer")]_vars
    /\ [][loop_pc # "recv" => direction_input' = direction_input]_vars

\* An update has just applied the direction received first while a later one
\* still waits in the channel.
C16_Witness ==
    /\ last.op = "update"
    /\ ticks >= 1
    /\ Len(received) = 1
    /\ Len(input_channel) = 1
    /\ direction_input = received[1]
    /\ direction = direction_input
    /\ input_channel[1] # direction_input

\* The directions of the recognized bytes of a byte sequence, in order.
RECURSIVE Decoded(_)
Decoded(bytes) ==
    IF bytes = <<>> THEN <<>>
    ELSE LET b == Head(bytes)
             d == IF b = "w" THEN <<"Up">>
                  ELSE IF b = "s" THEN <<"Down">>
                  ELSE IF b = "a" THEN <<"Left">>
                  ELSE IF b = "d" THEN <<"Right">>
                  ELSE <<>>
         IN d \o Decoded(Tail(bytes))

\* Sequence p is a prefix of sequence q.
IsPrefix(p, q) == Len(p) <= Len(q) /\ p = SubSeq(q, 1, Len(p))

\* C17: whatever the input bytes and the interleaving of the worker with the
\* loop, the directions the loop has received are a prefix of the input with
\* its unrecognized bytes removed and w/s/a/d mapped to Up/Down/Left/Right.
C17_ReceivedIsPrefix ==
    IsPrefix(received, Decoded(input))

\* The loop has received the direction of a key that followed an
\* unrecognized byte.
C17_Witness ==
    /\ Len(input) = 2
    /\ input[1] = "x"
    /\ input[2] = "a"
    /\ received = <<"Left">>

\* A step in which update() ran: it always moves the head.
HeadMoves == head_x' # head_x \/ head_y' # head_y

\* C18: in main() the game's direction changes only in the set_direction
\* call made right before each update, so between two updates it is the
\* direction the last one used; no update moves the head in the reverse of
\* it; a pending direction_input that is the reverse is rejected at every
\* update, any other is taken.
C18_LoopNeverReverses ==
    /\ [][HeadMoves =>
             /\ head_x' = head_x + (IF direction' = "Right" THEN 1
                                    ELSE IF direction' = "Left" THEN -1 ELSE 0)
             /\ head_y' = head_y + (IF direction' = "Down" THEN 1
                                    ELSE IF direction' = "Up" THEN -1 ELSE 0)
             /\ ~Reversal(direction, direction')
             /\ Reversal(direction, direction_input) => direction' = direction
             /\ ~Reversal(direction, direction_input) =>
                    direction' = direction_input]_vars
    /\ [][~HeadMoves => direction' = direction]_vars

\* An update has just rejected the pending Down and moved the head Up again.
C18_Witness ==
    /\ last.op = "update"
    /\ ticks >= 2
    /\ direction_input = "Down"
    /\ direction = "Up"
    /\ received = <<"Down">>

\* The larger of two integers.
Max(a, b) == IF a >= b THEN a ELSE b

\* The Snake tiles are a path from the head: their ages are distinct and are
\* exactly 1..k for k tiles, the tile of age 1 is at the head coordinate,
\* which is inside the grid, and tiles whose ages differ by 1 are
\* orthogonally adjacent.
SnakeIsPath ==
    LET S == SnakeCells(tiles)
        k == Cardinality(S)
        Age(c) == tiles[c[1]][c[2]].val
        Dist(a, b) ==
            (IF a[1] >= b[1] THEN a[1] - b[1] ELSE b[1] - a[1])
            + (IF a[2] >= b[2] THEN a[2] - b[2] ELSE b[2] - a[2])
    IN
    /\ {Age(c) : c \in S} = 1 .. k
    /\ \A a \in S : \A b \in S : Age(a) = Age(b) => a = b
    /\ InGrid(head_x, head_y)
    /\ tiles[head_x][head_y] = Snake(1)
    /\ \A a \in S : \A b \in S : Age(a) = Age(b) + 1 => Dist(a, b) = 1

C20_StraightRunDies ==
    /\ (alive /\ pc = "idle") => run < Max(width, height)
    /\ (width = 16 /\ height = 16 /\ input = <<>> /\ pc = "idle") =>
          /\ ticks <= 9
          /\ alive <=> ticks < 9
          /\ ~alive => (head_x = 8 /\ head_y = -1 /\ last.ret = "out_of_bounds")

\* The 16 x 16 game with no input has died on its 9th update.
C20_Witness ==
    /\ width = 16
    /\ height = 16
    /\ input = <<>>
    /\ ~alive
    /\ ticks = 9
    /\ run = 9
    /\ head_y = -1

====
